---- MODULE Spec2Model ----
(***************************************************************************)
(* Article revision engine and keyword search of the knowledge base        *)
(* (backend/app/crud.py).                                                  *)
(*                                                                         *)
(* The store holds the articles table and the article_versions table.     *)
(* Every request runs in its own SQLAlchemy session (database.get_db):     *)
(* a query reads the committed rows, pending attribute changes are         *)
(* flushed by db.commit() as one UPDATE/INSERT, and every commit expires   *)
(* the session's objects.  A handler is therefore a sequence of store      *)
(* round trips.  SeqSpec serves one request at a time, each handler from   *)
(* its first to its last round trip.  Spec follows one request round trip  *)
(* by round trip and serves the requests of other callers between any two  *)
(* of its round trips; DraftSpec does so for the draft life cycle alone.   *)
(* StoreSpec is SeqSpec with the votes and the import of the document      *)
(* store, VoteSpec the votes on one document of any weight.  ParseSpec     *)
(* applies _parse_search_query to a string, SearchSpec runs one search,    *)
(* basic or enhanced, on a store of articles.                              *)
(***************************************************************************)
EXTENDS Integers, Sequences, FiniteSets, TLC

VARIABLES articles, versions, sess, database_url, query, limit, public_only, terms, hits

vars == <<articles, versions, sess, database_url, query, limit, public_only, terms, hits>>

\* The call of search_articles: the store's dialect, the arguments, the parsed
\* terms, the result
searchVars == <<database_url, query, limit, public_only, terms, hits>>

(***************************************************************************)
(* Bounds of the model.                                                    *)
(***************************************************************************)
MaxArticles == 1
MaxVersions == 3
MaxVotes == 2

\* The session whose request is followed
Sessions == {"s1"}

(***************************************************************************)
(* Values.  Tags are a JSON column: NULL, the empty list, or a list.       *)
(* weight_score is kept in hundredths; it is a nullable Float column, and  *)
(* NoneWeight stands for NULL.                                             *)
(***************************************************************************)
NoneTags == "NONE"
EmptyTags == "EMPTY"
NoneWeight == 0 - 1

SnapshotFields == {"title", "content", "tags", "weight_score", "is_public"}

\* ArticleCreate bodies (title and content are required; tags, weight_score
\* and is_public are Optional with defaults [], 1.0 and True).
CreateInputs ==
  << [title |-> "t1", content |-> "c1", tags |-> NoneTags, weight_score |-> 0, is_public |-> TRUE] >>

\* ArticleUpdate bodies after dict(exclude_unset=True): only the keys sent.
UpdateInputs ==
  << [k \in {} |-> "NONE"],
     [title |-> "t2", content |-> "c2", tags |-> "x", weight_score |-> 500, is_public |-> FALSE],
     [tags |-> NoneTags],
     [is_active |-> FALSE],
     [weight_score |-> NoneWeight] >>

\* ArticleImportData dicts: every key present, weight_score a float without
\* bounds
ImportInputs ==
  << [title |-> "t4", content |-> "c4", tags |-> EmptyTags, weight_score |-> 995,
      is_public |-> TRUE, is_active |-> TRUE, helpful_votes |-> 0],
     [title |-> "t5", content |-> "c5", tags |-> EmptyTags, weight_score |-> 5000,
      is_public |-> TRUE, is_active |-> TRUE, helpful_votes |-> 0] >>

\* The data dict of update_draft_version: the keys sent, a value may be None.
DraftInputs ==
  << [title |-> "t3", tags |-> NoneTags],
     [content |-> "c3", tags |-> "y", weight_score |-> 0, is_public |-> FALSE] >>

\* x or [] on a tags value
OrEmptyList(t) == IF t = NoneTags THEN EmptyTags ELSE t

\* x or 1.0 on a weight
OrDefaultWeight(w) == IF w = 0 THEN 100 ELSE w

(***************************************************************************)
(* Rows.                                                                   *)
(***************************************************************************)
NoArt == [title |-> "", content |-> "", tags |-> NoneTags, weight_score |-> 0,
          is_public |-> FALSE, is_active |-> FALSE, helpful_votes |-> 0, unhelpful_votes |-> 0]

NoVer == [article_id |-> 0, version_number |-> 0, title |-> "", content |-> "",
          tags |-> NoneTags, weight_score |-> 0, is_public |-> FALSE,
          is_draft |-> FALSE, published_at |-> FALSE]

Max(S) == CHOOSE x \in S : \A y \in S : y <= x

\* Article(...) in create_article
NewArticle(c) ==
  [title |-> c.title, content |-> c.content, tags |-> OrEmptyList(c.tags),
   weight_score |-> OrDefaultWeight(c.weight_score), is_public |-> c.is_public,
   is_active |-> TRUE, helpful_votes |-> 0, unhelpful_votes |-> 0]

\* Article(...) in import_articles_from_json
ImportedArticle(d) ==
  [title |-> d.title, content |-> d.content, tags |-> d.tags,
   weight_score |-> d.weight_score, is_public |-> d.is_public,
   is_active |-> d.is_active, helpful_votes |-> d.helpful_votes, unhelpful_votes |-> 0]

\* The votes' arithmetic on the weight in hundredths
Min(x, y) == IF x < y THEN x ELSE y

\* helpful_votes += 1; weight_score = min(10.0, weight_score + 0.1)
VoteHelpful(row) ==
  [row EXCEPT !.helpful_votes = @ + 1, !.weight_score = Min(1000, @ + 10)]

\* The negative vote with a floor of 1.0
VoteUnhelpfulFloorOne(row) ==
  [row EXCEPT !.unhelpful_votes = @ + 1, !.weight_score = Max({100, @ - 5})]

\* unhelpful_votes += 1; weight_score = max(0.1, weight_score - 0.05)
VoteUnhelpful(row) ==
  [row EXCEPT !.unhelpful_votes = @ + 1, !.weight_score = Max({10, @ - 5})]

\* An ArticleVersion(...) without weight_score=: the column default 1.0
NewVersionDefaultWeight(aid, art, vnum, is_draft) ==
  [article_id |-> aid, version_number |-> vnum, title |-> art.title,
   content |-> art.content, tags |-> OrEmptyList(art.tags),
   weight_score |-> 100, is_public |-> art.is_public,
   is_draft |-> is_draft, published_at |-> ~is_draft]

\* ArticleVersion(...) in _create_article_version
NewVersion(aid, art, vnum, is_draft) ==
  [article_id |-> aid, version_number |-> vnum, title |-> art.title,
   content |-> art.content, tags |-> OrEmptyList(art.tags),
   weight_score |-> art.weight_score, is_public |-> art.is_public,
   is_draft |-> is_draft, published_at |-> ~is_draft]

VersionNumbers(v, aid) == { v[i].version_number : i \in { j \in 1..Len(v) : v[j].article_id = aid } }

\* (current or 1) + 1: the first revision of a document would be numbered 2
NextVersionNumberFromOne(v, aid) ==
  IF VersionNumbers(v, aid) = {} THEN 2 ELSE Max(VersionNumbers(v, aid)) + 1

\* select max(version_number) ... ; (current or 0) + 1
NextVersionNumber(v, aid) ==
  IF VersionNumbers(v, aid) = {} THEN 1 ELSE Max(VersionNumbers(v, aid)) + 1

\* The query without the filter Article.is_active == True
ArticleFoundAnyState(a, aid) == aid \in 1..Len(a)

\* get_article: the row with this id and is_active, or nothing
ArticleFound(a, aid) == aid \in 1..Len(a) /\ a[aid].is_active

\* get_article_version: index of the row (article_id, version_number), 0 if none
VersionIndex(v, aid, vno) ==
  IF \E i \in 1..Len(v) : v[i].article_id = aid /\ v[i].version_number = vno
  THEN CHOOSE i \in 1..Len(v) : v[i].article_id = aid /\ v[i].version_number = vno
  ELSE 0

\* setattr(obj, k, d[k]) for every key of d that obj has
SetAttrs(obj, d) ==
  [k \in DOMAIN obj |-> IF k \in DOMAIN d THEN d[k] ELSE obj[k]]

\* The loop without "and data[k] is not None"
DraftAttrsWithNone(ver, d) ==
  [k \in DOMAIN ver |-> IF k \in SnapshotFields /\ k \in DOMAIN d THEN d[k] ELSE ver[k]]

\* update_draft_version: only the five snapshot keys, and only values not None
DraftAttrs(ver, d) ==
  [k \in DOMAIN ver |->
     IF k \in SnapshotFields /\ k \in DOMAIN d /\ ~(k = "tags" /\ d[k] = NoneTags)
     THEN d[k] ELSE ver[k]]

\* The copy without art.content = ver.content
CopySnapshotNoContent(art, ver) ==
  [art EXCEPT !.title = ver.title,
              !.tags = OrEmptyList(ver.tags), !.weight_score = ver.weight_score,
              !.is_public = ver.is_public]

\* art.title = ver.title ... art.is_public = ver.is_public
CopySnapshot(art, ver) ==
  [art EXCEPT !.title = ver.title, !.content = ver.content,
              !.tags = OrEmptyList(ver.tags), !.weight_score = ver.weight_score,
              !.is_public = ver.is_public]

\* An UPDATE of every column with the object's values, changed or not
FlushAllColumns(row, loaded, pending) == pending

\* The UPDATE a flush emits: the columns whose value was changed since load
Flush(row, loaded, pending) ==
  [k \in DOMAIN row |-> IF pending[k] # loaded[k] THEN pending[k] ELSE row[k]]

(***************************************************************************)
(* The unique constraint uq_article_version(article_id, version_number):   *)
(* an INSERT of a second row with the same pair raises IntegrityError.     *)
(***************************************************************************)
\* The table without the constraint
NoUniqueConstraint(v, aid, vnum) == FALSE

UniqueViolation(v, aid, vnum) == VersionIndex(v, aid, vnum) # 0

(***************************************************************************)
(* Sessions.  op is the handler the session runs, pc its next round trip,  *)
(* art/new the loaded and the pending Article object, ver/newver the       *)
(* loaded and the pending ArticleVersion object, result what the handler   *)
(* returned: "ok" (an object or True), "not_found" (None or False),        *)
(* "error" (an IntegrityError left the handler).                           *)
(***************************************************************************)
IdleSession ==
  [op |-> "none", pc |-> "idle", aid |-> 0, vno |-> 0, inp |-> 0,
   has_art |-> FALSE, art |-> NoArt, new |-> NoArt,
   vid |-> 0, ver |-> NoVer, newver |-> NoVer,
   vnum |-> 0, draft |-> FALSE, result |-> "none"]

\* The handler returns: the session's objects are dropped with it (db.close()),
\* the caller is left with the handler's name and what it returned
Return(s, res) == [IdleSession EXCEPT !.op = s.op, !.pc = "done", !.result = res]

St(a, v, s) == [a |-> a, v |-> v, s |-> s]

\* db.add(db_article); db.commit() in create_article
InsertArticleF(st) ==
  St(Append(st.a, NewArticle(CreateInputs[st.s.inp])), st.v,
     [st.s EXCEPT !.aid = Len(st.a) + 1, !.pc = "refresh"])

\* db.add(article) for the dict; db.commit() in import_articles_from_json
ImportF(st) ==
  St(Append(st.a, ImportedArticle(ImportInputs[st.s.inp])), st.v, Return(st.s, "ok"))

Votes == {"vote_helpful", "vote_unhelpful"}

\* art = get_article(db, article_id) and what the handler does with it
GetArtF(st) ==
  LET s == st.s
      found == ArticleFound(st.a, s.aid)
      row == IF found THEN st.a[s.aid] ELSE NoArt
      loaded == [s EXCEPT !.has_art = found, !.art = row, !.new = row]
  IN CASE s.op = "publish" -> St(st.a, st.v, [loaded EXCEPT !.pc = "get_ver"])
       [] s.op \in Votes /\ found /\ row.weight_score = NoneWeight ->
            \* None + 0.1 raises TypeError
            St(st.a, st.v, Return(s, "error"))
       [] s.op = "vote_helpful" /\ found /\ row.weight_score # NoneWeight ->
            St(st.a, st.v, [loaded EXCEPT !.new = VoteHelpful(row), !.pc = "commit_art"])
       [] s.op = "vote_unhelpful" /\ found /\ row.weight_score # NoneWeight ->
            St(st.a, st.v, [loaded EXCEPT !.new = VoteUnhelpful(row), !.pc = "commit_art"])
       [] s.op # "publish" /\ ~found -> St(st.a, st.v, Return(s, "not_found"))
       [] s.op = "update_article" /\ found ->
            St(st.a, st.v, [loaded EXCEPT !.new = SetAttrs(row, UpdateInputs[s.inp]),
                                          !.pc = "commit_art"])
       [] s.op = "delete_article" /\ found ->
            St(st.a, st.v, [loaded EXCEPT !.new = [row EXCEPT !.is_active = FALSE],
                                          !.pc = "commit_art"])
       [] s.op = "rollback" /\ found -> St(st.a, st.v, [loaded EXCEPT !.pc = "get_ver"])
       [] s.op = "create_draft" /\ found ->
            St(st.a, st.v, [loaded EXCEPT !.draft = TRUE, !.pc = "max"])

\* if not ver: return None, without the test of ver.is_draft
RollbackRefusesMissingOnly(v, i) == i = 0

\* rollback_article_to_version: if not ver or ver.is_draft: return None
RollbackRefuses(v, i) == i = 0 \/ v[i].is_draft

\* if not ver: return None, without the test of ver.is_draft
UpdateDraftRefusesMissingOnly(v, i) == i = 0

\* update_draft_version: if not ver or not ver.is_draft: return None
UpdateDraftRefuses(v, i) == i = 0 \/ ~v[i].is_draft

\* publish_draft_version: if not art or not ver or not ver.is_draft: return None
PublishRefuses(has_art, v, i) == ~has_art \/ i = 0 \/ ~v[i].is_draft

\* ver = get_article_version(db, article_id, version_number) and what follows
GetVerF(st) ==
  LET s == st.s
      i == VersionIndex(st.v, s.aid, s.vno)
  IN CASE s.op = "rollback" ->
            IF RollbackRefuses(st.v, i)
            THEN St(st.a, st.v, Return(s, "not_found"))
            ELSE St(st.a, st.v, [s EXCEPT !.new = CopySnapshot(s.art, st.v[i]),
                                          !.pc = "commit_art"])
       [] s.op = "update_draft" ->
            IF UpdateDraftRefuses(st.v, i)
            THEN St(st.a, st.v, Return(s, "not_found"))
            ELSE St(st.a, st.v, [s EXCEPT !.vid = i, !.ver = st.v[i],
                                          !.newver = DraftAttrs(st.v[i], DraftInputs[s.inp]),
                                          !.pc = "commit_ver"])
       [] s.op = "publish" ->
            IF PublishRefuses(s.has_art, st.v, i)
            THEN St(st.a, st.v, Return(s, "not_found"))
            ELSE St(st.a, st.v, [s EXCEPT !.vid = i, !.new = CopySnapshot(s.art, st.v[i]),
                                          !.pc = "commit_art"])

\* db.commit() with a changed Article: UPDATE articles SET <changed columns>
CommitArtF(st) ==
  LET s == st.s
      a2 == [st.a EXCEPT ![s.aid] = Flush(st.a[s.aid], s.art, s.new)]
  IN IF s.op \in {"delete_article"} \cup Votes
     THEN St(a2, st.v, Return(s, "ok"))
     ELSE St(a2, st.v, [s EXCEPT !.pc = "refresh"])

\* db.refresh(art), and the reload of the expired art after the last commit of
\* publish_draft_version
RefreshF(st) ==
  LET s == st.s
      row == st.a[s.aid]
  IN St(st.a, st.v,
        [s EXCEPT !.art = row, !.new = row,
                  !.pc = IF s.op = "publish" /\ s.pc = "refresh" THEN "commit_pub" ELSE "max"])

\* ver.is_draft = False alone
MarkPublishedNoDate(row) == [row EXCEPT !.is_draft = FALSE]

\* ver.is_draft = False; ver.published_at = utcnow(); db.commit()
MarkPublished(row) == [row EXCEPT !.is_draft = FALSE, !.published_at = TRUE]

CommitPubF(st) ==
  St(st.a, [st.v EXCEPT ![st.s.vid] = MarkPublished(st.v[st.s.vid])],
     [st.s EXCEPT !.pc = "reload"])

\* vnum = _next_version_number(db, article.id)
MaxF(st) ==
  St(st.a, st.v, [st.s EXCEPT !.vnum = NextVersionNumber(st.v, st.s.aid), !.pc = "insert"])

\* db.add(version); db.commit() in _create_article_version
InsertVersionF(st) ==
  LET s == st.s
  IN IF UniqueViolation(st.v, s.aid, s.vnum)
     THEN St(st.a, st.v, Return(s, "error"))
     ELSE St(st.a, Append(st.v, NewVersion(s.aid, s.art, s.vnum, s.draft)), Return(s, "ok"))

\* A commit of the draft that also sets the draft's fields on the live article
CommitVerLiveF(st) ==
  LET s == st.s
  IN St([st.a EXCEPT ![s.aid] = CopySnapshot(st.a[s.aid], s.newver)],
        [st.v EXCEPT ![s.vid] = Flush(st.v[s.vid], s.ver, s.newver)], Return(s, "ok"))

\* db.commit() with a changed draft: UPDATE article_versions SET <changed columns>
CommitVerF(st) ==
  LET s == st.s
  IN St(st.a, [st.v EXCEPT ![s.vid] = Flush(st.v[s.vid], s.ver, s.newver)], Return(s, "ok"))

\* One round trip of the session, by its position in the handler
StepF(st) ==
  CASE st.s.pc = "insert_art" -> InsertArticleF(st)
    [] st.s.pc = "import" -> ImportF(st)
    [] st.s.pc = "get_art" -> GetArtF(st)
    [] st.s.pc = "get_ver" -> GetVerF(st)
    [] st.s.pc = "commit_art" -> CommitArtF(st)
    [] st.s.pc \in {"refresh", "reload"} -> RefreshF(st)
    [] st.s.pc = "commit_pub" -> CommitPubF(st)
    [] st.s.pc = "max" -> MaxF(st)
    [] st.s.pc = "insert" -> InsertVersionF(st)
    [] st.s.pc = "commit_ver" -> CommitVerF(st)

\* The handler run from its current position to its return
RECURSIVE RunF(_)
RunF(st) == IF st.s.pc = "done" THEN st ELSE RunF(StepF(st))

(***************************************************************************)
(* The state after construction: empty tables, no request in progress.     *)
(***************************************************************************)
\* No search has been called
NoTerms == [parsed |-> FALSE, required |-> <<>>, excluded |-> <<>>, optional |-> <<>>]

NoSearch ==
  /\ database_url = "sqlite"
  /\ query = <<>>
  /\ limit = 0
  /\ public_only = FALSE
  /\ terms = NoTerms
  /\ hits = <<>>

Init ==
  /\ articles = <<>>
  /\ versions = <<>>
  /\ sess = [p \in Sessions |-> IdleSession]
  /\ NoSearch

Running(p) == sess[p].pc \notin {"idle", "done"}

\* Handlers that end in _create_article_version
Snapshotting == {"create_article", "update_article", "rollback", "create_draft", "publish"}

\* Room for the rows the handlers in progress may still insert, and one more
RoomForVersion ==
  Len(versions) + Cardinality({q \in Sessions : Running(q) /\ sess[q].op \in Snapshotting})
    < MaxVersions

RoomForArticle ==
  Len(articles) + Cardinality({q \in Sessions : sess[q].pc = "insert_art"}) < MaxArticles

\* A request arrives: the session of the request, at the handler's first round trip
Request(op, pc, aid, vno, inp) ==
  [IdleSession EXCEPT !.op = op, !.pc = pc, !.aid = aid, !.vno = vno, !.inp = inp]

\* The requests that can arrive: every handler, on every document id and
\* every version number of the model
Ids == 1..MaxArticles
Numbers == 1..MaxVersions

CreateRequests == { Request("create_article", "insert_art", 0, 0, i) : i \in DOMAIN CreateInputs }
UpdateRequests == { Request("update_article", "get_art", d, 0, i) : d \in Ids, i \in DOMAIN UpdateInputs }
DeleteRequests == { Request("delete_article", "get_art", d, 0, 0) : d \in Ids }
CreateDraftRequests == { Request("create_draft", "get_art", d, 0, 0) : d \in Ids }
UpdateDraftRequests ==
  { Request("update_draft", "get_ver", d, n, i) : d \in Ids, n \in Numbers, i \in DOMAIN DraftInputs }
PublishRequests == { Request("publish", "get_art", d, n, 0) : d \in Ids, n \in Numbers }
RollbackRequests == { Request("rollback", "get_art", d, n, 0) : d \in Ids, n \in Numbers }

\* The import of one article, and the votes
ImportRequests == { Request("import", "import", 0, 0, i) : i \in DOMAIN ImportInputs }
VoteHelpfulRequests == { Request("vote_helpful", "get_art", d, 0, 0) : d \in Ids }
VoteUnhelpfulRequests == { Request("vote_unhelpful", "get_art", d, 0, 0) : d \in Ids }

\* The requests that make documents and revisions
Requests ==
  CreateRequests \cup UpdateRequests \cup DeleteRequests \cup CreateDraftRequests
    \cup UpdateDraftRequests \cup PublishRequests \cup RollbackRequests \cup ImportRequests

\* The votes cast so far
RECURSIVE VotesCast(_)
VotesCast(a) ==
  IF a = <<>> THEN 0 ELSE Head(a).helpful_votes + Head(a).unhelpful_votes + VotesCast(Tail(a))

Admitted(r) ==
  /\ r.op \in Snapshotting => RoomForVersion
  /\ r.op \in {"create_article", "import"} => RoomForArticle
  /\ r.op \in Votes => VotesCast(articles) < MaxVotes

Apply(p, st) ==
  /\ articles' = st.a
  /\ versions' = st.v
  /\ sess' = [sess EXCEPT ![p] = st.s]
  /\ UNCHANGED searchVars

Here(p) == St(articles, versions, sess[p])

(***************************************************************************)
(* One round trip of the handler session p runs.                           *)
(***************************************************************************)
\* A request arrives and its handler makes its first round trip
Call(p, r) == ~Running(p) /\ Admitted(r) /\ Apply(p, StepF(St(articles, versions, r)))

GetVer(p) == sess[p].pc = "get_ver" /\ Apply(p, GetVerF(Here(p)))
CommitArt(p) == sess[p].pc = "commit_art" /\ Apply(p, CommitArtF(Here(p)))
Refresh(p) == sess[p].pc \in {"refresh", "reload"} /\ Apply(p, RefreshF(Here(p)))
CommitPub(p) == sess[p].pc = "commit_pub" /\ Apply(p, CommitPubF(Here(p)))
NextVersion(p) == sess[p].pc = "max" /\ Apply(p, MaxF(Here(p)))
InsertVersion(p) == sess[p].pc = "insert" /\ Apply(p, InsertVersionF(Here(p)))
CommitVer(p) == sess[p].pc = "commit_ver" /\ Apply(p, CommitVerF(Here(p)))

(***************************************************************************)
(* Spec: the request of session Stepper runs one round trip at a time;     *)
(* between any two of its round trips the requests of other callers run    *)
(* from call to return.                                                    *)
(***************************************************************************)
Stepper == "s1"

\* Another caller's request on the same document is served while the Stepper's
\* is in progress (requests on other documents touch none of its rows); its
\* response is not kept
Interleave(r) ==
  /\ Running(Stepper)
  /\ Admitted(r)
  /\ r.aid = sess[Stepper].aid
  /\ LET out == RunF(St(articles, versions, r))
     IN articles' = out.a /\ versions' = out.v /\ UNCHANGED <<sess, searchVars>>

Next ==
  \/ \E r \in Requests : Call(Stepper, r)
  \/ GetVer(Stepper)
  \/ CommitArt(Stepper)
  \/ Refresh(Stepper)
  \/ CommitPub(Stepper)
  \/ NextVersion(Stepper)
  \/ InsertVersion(Stepper)
  \/ CommitVer(Stepper)
  \/ \E r \in Requests : Interleave(r)

Spec == Init /\ [][Next]_vars

(***************************************************************************)
(* DraftSpec: the same interleaving, of the requests of the draft life     *)
(* cycle alone: documents are created, drafts created, edited, published.  *)
(***************************************************************************)
DraftRequests ==
  CreateRequests \cup CreateDraftRequests \cup UpdateDraftRequests \cup PublishRequests

DraftNext ==
  \/ \E r \in DraftRequests : Call(Stepper, r)
  \/ GetVer(Stepper)
  \/ CommitArt(Stepper)
  \/ Refresh(Stepper)
  \/ CommitPub(Stepper)
  \/ NextVersion(Stepper)
  \/ InsertVersion(Stepper)
  \/ CommitVer(Stepper)
  \/ \E r \in DraftRequests : Interleave(r)

DraftSpec == Init /\ [][DraftNext]_vars

(***************************************************************************)
(* SeqSpec: one request at a time, each handler run from call to return.   *)
(***************************************************************************)
Caller == "s1"

\* The handler serves the request from its first to its last round trip
Serve(r) == Apply(Caller, RunF(St(articles, versions, r)))

create_article == \E r \in CreateRequests : Admitted(r) /\ Serve(r)
update_article == \E r \in UpdateRequests : Admitted(r) /\ Serve(r)
delete_article == \E r \in DeleteRequests : Admitted(r) /\ Serve(r)
create_draft_version == \E r \in CreateDraftRequests : Admitted(r) /\ Serve(r)
update_draft_version == \E r \in UpdateDraftRequests : Admitted(r) /\ Serve(r)
publish_draft_version == \E r \in PublishRequests : Admitted(r) /\ Serve(r)
rollback_article_to_version == \E r \in RollbackRequests : Admitted(r) /\ Serve(r)

SeqNext ==
  \/ create_article
  \/ update_article
  \/ delete_article
  \/ create_draft_version
  \/ update_draft_version
  \/ publish_draft_version
  \/ rollback_article_to_version

SeqSpec == Init /\ [][SeqNext]_vars

(***************************************************************************)
(* StoreSpec: the same, with the votes and the import of the document      *)
(* store.                                                                  *)
(***************************************************************************)
vote_helpful == \E r \in VoteHelpfulRequests : Admitted(r) /\ Serve(r)
vote_unhelpful == \E r \in VoteUnhelpfulRequests : Admitted(r) /\ Serve(r)
import_articles_from_json == \E r \in ImportRequests : Admitted(r) /\ Serve(r)

StoreNext ==
  \/ create_article
  \/ update_article
  \/ delete_article
  \/ create_draft_version
  \/ update_draft_version
  \/ publish_draft_version
  \/ rollback_article_to_version
  \/ vote_helpful
  \/ vote_unhelpful
  \/ import_articles_from_json

StoreSpec == Init /\ [][StoreNext]_vars

(***************************************************************************)
(* VoteSpec: votes on a store that is empty or holds one imported article, *)
(* of any weight the column can hold (import_articles_from_json takes the  *)
(* weight_score of the dict as it is, update_article any of 0.0..10.0 and  *)
(* null), active or not.                                                   *)
(***************************************************************************)
MaxWeight == 1010

Weights == {NoneWeight} \cup 0..MaxWeight

VoteInit ==
  /\ \/ articles = <<>>
     \/ \E w \in Weights, act \in BOOLEAN :
          articles = << ImportedArticle([ImportInputs[1] EXCEPT !.weight_score = w,
                                                                !.is_active = act]) >>
  /\ versions = <<>>
  /\ sess = [p \in Sessions |-> IdleSession]
  /\ NoSearch

VoteNext ==
  \/ vote_helpful
  \/ vote_unhelpful

VoteSpec == VoteInit /\ [][VoteNext]_vars

(***************************************************************************)
(* Search.  A string is the sequence of its characters.  \w of the regular *)
(* expression is the letters, digits and the underscore; the model has the *)
(* letters below.                                                          *)
(***************************************************************************)
WordChars == {"a", "b", "g", "x", "A", "B", "G", "_"}

Whitespace == {" "}

\* str.lower() on one character
LowerChar(c) == CASE c = "A" -> "a" [] c = "B" -> "b" [] c = "G" -> "g" [] OTHER -> c

\* str.lower()
Lower(s) == [i \in 1..Len(s) |-> LowerChar(s[i])]

\* str.split(): the maximal runs of characters that are not whitespace
RECURSIVE SplitF(_, _, _)
SplitF(s, tok, done) ==
  IF s = <<>> THEN (IF tok = <<>> THEN done ELSE Append(done, tok))
  ELSE IF Head(s) \in Whitespace
       THEN SplitF(Tail(s), <<>>, IF tok = <<>> THEN done ELSE Append(done, tok))
       ELSE SplitF(Tail(s), Append(tok, Head(s)), done)

Split(s) == SplitF(s, <<>>, <<>>)

\* prefix = tok[0]
Prefix(tok) == tok[1]

\* body = tok[1:] if prefix in ['+', '-'] else tok; re.sub(r'[^\w\-]+', '', body)
IsBodyChar(c) == c \in WordChars \cup {"-"}

Body(tok) == SelectSeq(IF Prefix(tok) \in {"+", "-"} THEN Tail(tok) ELSE tok, IsBodyChar)

\* required.append(body.lower())
StrippedTerm(tok) == Lower(Body(tok))

\* optional.append(tok.lower())
OptionalTerm(tok) == Lower(tok)

\* _parse_search_query: the tokens whose body is not empty, by prefix, in order
ParseSearchQuery(q) ==
  LET Survives(tok) == Body(tok) # <<>>
      IsRequired(tok) == Prefix(tok) = "+"
      IsExcluded(tok) == Prefix(tok) = "-"
      IsOptional(tok) == Prefix(tok) \notin {"+", "-"}
      tokens == SelectSeq(Split(q), Survives)
      req == SelectSeq(tokens, IsRequired)
      exc == SelectSeq(tokens, IsExcluded)
      opt == SelectSeq(tokens, IsOptional)
  IN [parsed |-> TRUE,
      required |-> [i \in 1..Len(req) |-> StrippedTerm(req[i])],
      excluded |-> [i \in 1..Len(exc) |-> StrippedTerm(exc[i])],
      optional |-> [i \in 1..Len(opt) |-> OptionalTerm(opt[i])]]

(***************************************************************************)
(* ParseSpec: _parse_search_query applied to every string of at most       *)
(* MaxQueryLen characters of QueryChars.                                   *)
(***************************************************************************)
MaxQueryLen == 4

QueryChars == {"a", "B", "_", "+", "-", "!", " "}

QueryStrings == UNION { [1..n -> QueryChars] : n \in 0..MaxQueryLen }

ParseInit ==
  /\ articles = <<>>
  /\ versions = <<>>
  /\ sess = [p \in Sessions |-> IdleSession]
  /\ database_url = "sqlite"
  /\ query \in QueryStrings
  /\ limit = 0
  /\ public_only = FALSE
  /\ terms = NoTerms
  /\ hits = <<>>

parse_search_query ==
  /\ ~terms.parsed
  /\ terms' = ParseSearchQuery(query)
  /\ UNCHANGED <<articles, versions, sess, database_url, query, limit, public_only, hits>>

ParseSpec == ParseInit /\ [][parse_search_query]_vars

(***************************************************************************)
(* search_articles.  The text columns of the searched articles are         *)
(* character sequences; tags is JSON null or a list of strings; platforms  *)
(* and products are the names joined to the article.  A filter is an SQL   *)
(* condition, with the values TRUE, FALSE and NULL.                        *)
(***************************************************************************)
SqlOr(S) == IF "TRUE" \in S THEN "TRUE" ELSE IF "NULL" \in S THEN "NULL" ELSE "FALSE"

SqlAnd(S) == IF "FALSE" \in S THEN "FALSE" ELSE IF "NULL" \in S THEN "NULL" ELSE "TRUE"

SqlNot(x) == CASE x = "TRUE" -> "FALSE" [] x = "FALSE" -> "TRUE" [] OTHER -> "NULL"

SqlBool(b) == IF b THEN "TRUE" ELSE "FALSE"

\* s LIKE p, compared in lower case: % is any run of characters, _ any one
RECURSIVE Like(_, _)
Like(s, p) ==
  IF p = <<>> THEN s = <<>>
  ELSE IF Head(p) = "%" THEN Like(s, Tail(p)) \/ (s # <<>> /\ Like(Tail(s), p))
  ELSE /\ s # <<>>
       /\ Head(p) = "_" \/ LowerChar(Head(p)) = LowerChar(Head(s))
       /\ Like(Tail(s), Tail(p))

\* column.ilike(pat) on a column that may be NULL
ILike(text, pat) == IF text.is_null THEN "NULL" ELSE SqlBool(Like(text.chars, pat))

Text(chars) == [is_null |-> FALSE, chars |-> chars]

NullText == [is_null |-> TRUE, chars |-> <<>>]

\* The JSON text of a list of strings: ["x","y"], with ", " between the items
\* as json.dumps writes it where the stored text is read back as it is
RECURSIVE JsonItems(_, _)
JsonItems(list, sep) ==
  IF list = <<>> THEN <<>>
  ELSE <<"\"">> \o Head(list) \o <<"\"">>
         \o (IF Tail(list) = <<>> THEN <<>> ELSE sep \o JsonItems(Tail(list), sep))

\* _get_json_search_condition: cast(tags, String) on PostgreSQL, where JSON null
\* reads 'null'; json_extract(tags, '$') on SQLite, where JSON null is NULL
TagsText(tags, url) ==
  IF tags.is_null
  THEN (IF url = "postgresql" THEN Text(<<"n", "u", "l", "l">>) ELSE NullText)
  ELSE Text(<<"[">> \o JsonItems(tags.list, IF url = "postgresql" THEN <<",", " ">> ELSE <<",">>)
              \o <<"]">>)

\* pat = f"%{term}%"
Pattern(term) == <<"%">> \o term \o <<"%">>

\* _match_condition(term) on one article
MatchCondition(doc, term, url) ==
  SqlOr({ ILike(Text(doc.title), Pattern(term)),
          ILike(Text(doc.content), Pattern(term)),
          ILike(TagsText(doc.tags, url), Pattern(term)),
          SqlBool(\E n \in doc.platforms : Like(n, Pattern(term))),
          SqlBool(\E n \in doc.products : Like(n, Pattern(term))) })

\* Article.is_active == True, and Article.is_public == True if public_only
\* Article.is_active == True alone
BaseFilterActiveOnly(doc, pub) == doc.is_active

BaseFilter(doc, pub) == doc.is_active /\ (pub => doc.is_public)

\* and_(*filters) of the term query on one article
TermFilter(doc, t, pub, url) ==
  SqlAnd({ SqlBool(BaseFilter(doc, pub)) }
         \cup { MatchCondition(doc, t.required[i], url) : i \in 1..Len(t.required) }
         \cup (IF t.optional # <<>> /\ t.required = <<>>
               THEN { SqlOr({ MatchCondition(doc, t.optional[i], url) : i \in 1..Len(t.optional) }) }
               ELSE {})
         \cup { SqlNot(MatchCondition(doc, t.excluded[i], url)) : i \in 1..Len(t.excluded) })

\* The rows a WHERE clause keeps: those on which it is TRUE
Selected(a, t, pub, url) == { d \in 1..Len(a) : TermFilter(a[d], t, pub, url) = "TRUE" }

\* ORDER BY weight_score DESC, updated_at DESC ... LIMIT n: the lists the store
\* may return (rows equal in the sort keys come in any order)
Ordered(a, rows, n, by_updated) ==
  { h \in UNION { [1..k -> rows] : k \in {IF Cardinality(rows) < n THEN Cardinality(rows) ELSE n} } :
      /\ \A i, j \in DOMAIN h : i < j =>
           /\ h[i] # h[j]
           /\ a[h[i]].weight_score >= a[h[j]].weight_score
           /\ (by_updated /\ a[h[i]].weight_score = a[h[j]].weight_score)
                => a[h[i]].updated_at >= a[h[j]].updated_at
      /\ \A d \in rows : (\A i \in DOMAIN h : h[i] # d) =>
           \A i \in DOMAIN h :
             /\ a[h[i]].weight_score >= a[d].weight_score
             /\ (by_updated /\ a[h[i]].weight_score = a[d].weight_score)
                  => a[h[i]].updated_at >= a[d].updated_at }

\* get_articles(db, limit=limit, sort_by="weight_score", public_only=public_only)
GetArticles(a, n, pub) ==
  Ordered(a, { d \in 1..Len(a) : BaseFilter(a[d], pub) }, n, FALSE)

\* search_articles: the lists it may return, and the terms it parsed
NoTermsIn(t) == t.required = <<>> /\ t.excluded = <<>> /\ t.optional = <<>>

\* The term query ordered by weight_score alone
SearchArticlesByWeightOnly(a, q, n, pub, url) ==
  LET t == ParseSearchQuery(q)
  IN IF Split(q) = <<>> \/ NoTermsIn(t)
     THEN GetArticles(a, n, pub)
     ELSE Ordered(a, Selected(a, t, pub, url), n, FALSE)

SearchArticles(a, q, n, pub, url) ==
  LET t == ParseSearchQuery(q)
  IN IF Split(q) = <<>> \/ NoTermsIn(t)
     THEN GetArticles(a, n, pub)
     ELSE Ordered(a, Selected(a, t, pub, url), n, TRUE)

(***************************************************************************)
(* SearchService.preprocess_query: the query in lower case, every          *)
(* character that is neither a word character nor whitespace replaced by a *)
(* blank, split, without the stopwords.  Of the stopwords, "a" is the one  *)
(* that can be written with the letters of the model.                      *)
(***************************************************************************)
Stopwords == { <<"a">> }

PreprocessQuery(q) ==
  LET cleaned == [i \in 1..Len(q) |->
                    IF q[i] \in WordChars \cup Whitespace THEN LowerChar(q[i]) ELSE " "]
      NotStopword(w) == w \notin Stopwords
  IN SelectSeq(Split(cleaned), NotStopword)

(***************************************************************************)
(* SearchSpec: one search, basic or enhanced, on a store of articles of    *)
(* the Library, with a query of at most MaxTokens tokens.                  *)
(***************************************************************************)
MaxTokens == 3
MaxLimit == 2

Tags(list) == [is_null |-> FALSE, list |-> list]

NullTags == [is_null |-> TRUE, list |-> <<>>]

Library ==
  << [title |-> <<"G">>, content |-> <<"x">>, tags |-> Tags(<<>>),
      platforms |-> {}, products |-> {},
      weight_score |-> 500, updated_at |-> 1, is_active |-> TRUE, is_public |-> TRUE],
     [title |-> <<"x">>, content |-> <<"x", " ", "a">>, tags |-> Tags(<< <<"g">>, <<"x">> >>),
      platforms |-> {}, products |-> {<<"B">>},
      weight_score |-> 300, updated_at |-> 2, is_active |-> TRUE, is_public |-> TRUE],
     [title |-> <<"a">>, content |-> <<"x">>, tags |-> NullTags,
      platforms |-> {<<"G">>}, products |-> {},
      weight_score |-> 300, updated_at |-> 3, is_active |-> TRUE, is_public |-> FALSE],
     [title |-> <<"a">>, content |-> <<"g">>, tags |-> Tags(<<>>),
      platforms |-> {}, products |-> {},
      weight_score |-> 900, updated_at |-> 4, is_active |-> FALSE, is_public |-> TRUE] >>

\* The stores: the articles of the Library picked by S, in the Library's order
RECURSIVE Pick(_, _)
Pick(S, i) ==
  IF i > Len(Library) THEN <<>>
  ELSE (IF i \in S THEN <<Library[i]>> ELSE <<>>) \o Pick(S, i + 1)

Stores == { Pick(S, 1) : S \in SUBSET (1..Len(Library)) }

Tokens == { <<"+", "a">>, <<"-", "b">>, <<"g">>, <<"a">>, <<"_">>, <<"!">> }

RECURSIVE Join(_)
Join(toks) ==
  IF toks = <<>> THEN <<>>
  ELSE Head(toks) \o (IF Tail(toks) = <<>> THEN <<>> ELSE <<" ">> \o Join(Tail(toks)))

\* The queries: at most MaxTokens tokens, no token twice
Queries ==
  { Join(toks) : toks \in { t \in UNION { [1..n -> Tokens] : n \in 0..MaxTokens } :
                              \A i, j \in DOMAIN t : i # j => t[i] # t[j] } }

SearchInit ==
  /\ articles \in Stores
  /\ versions = <<>>
  /\ sess = [p \in Sessions |-> IdleSession]
  /\ database_url \in {"sqlite", "postgresql"}
  /\ query \in Queries
  /\ limit \in 1..MaxLimit
  /\ public_only \in BOOLEAN
  /\ terms = NoTerms
  /\ hits = <<>>

\* The search returns to the caller
Searching(op) == [IdleSession EXCEPT !.op = op]

\* SearchService.basic_search: crud.search_articles(db, query, limit, public_only)
search_articles ==
  /\ sess[Caller].pc = "idle"
  /\ terms' = ParseSearchQuery(query)
  /\ hits' \in SearchArticles(articles, query, limit, public_only, database_url)
  /\ sess' = [sess EXCEPT ![Caller] = Return(Searching("search_articles"), "ok")]
  /\ UNCHANGED <<articles, versions, database_url, query, limit, public_only>>

\* SearchService.enhanced_search: get_articles if preprocess_query leaves no
\* term, crud.search_articles on the query as it came otherwise
enhanced_search ==
  /\ sess[Caller].pc = "idle"
  /\ IF PreprocessQuery(query) = <<>>
     THEN /\ terms' = NoTerms
          /\ hits' \in GetArticles(articles, limit, public_only)
     ELSE /\ terms' = ParseSearchQuery(query)
          /\ hits' \in SearchArticles(articles, query, limit, public_only, database_url)
  /\ sess' = [sess EXCEPT ![Caller] = Return(Searching("enhanced_search"), "ok")]
  /\ UNCHANGED <<articles, versions, database_url, query, limit, public_only>>

SearchNext ==
  \/ search_articles
  \/ enhanced_search

SearchSpec == SearchInit /\ [][SearchNext]_vars

(***************************************************************************)
(* Vocabulary of the properties.                                           *)
(***************************************************************************)
\* title, content, tags, weight_score, is_public of an article or a revision
Snapshot(row) == <<row.title, row.content, row.tags, row.weight_score, row.is_public>>

\* The rows of document d, by position in creation order
RowsOf(v, d) == { i \in 1..Len(v) : v[i].article_id = d }

PublishedRowsOf(v, d) == { i \in RowsOf(v, d) : ~v[i].is_draft }

\* What the handler returns and leaves in the store when it serves r from here
Outcome(r) == RunF(St(articles, versions, r))

Returned(op, res) == sess[Caller].op = op /\ sess[Caller].result = res

(***************************************************************************)
(* C1.  Under any sequence of calls, the version numbers of each           *)
(* document's revisions are exactly 1..N, without gap or repeat, and       *)
(* increase in creation order: the k-th revision created for a document    *)
(* carries number k.                                                       *)
(***************************************************************************)
C1_VersionNumbersContiguous ==
  \A i \in 1..Len(versions) :
    versions[i].version_number =
      Cardinality({ j \in RowsOf(versions, versions[i].article_id) : j <= i })

\* A rollback has returned and left a third revision behind a draft or an edit
C1_Witness ==
  /\ Returned("rollback", "ok")
  /\ Len(versions) = 3
  /\ \A i \in 1..3 : versions[i].article_id = 1 /\ versions[i].version_number = i

(***************************************************************************)
(* C2.  When publish_draft_version or rollback_article_to_version returns  *)
(* an article, the live document's title, content, tags, weight_score and  *)
(* is_public equal those of the most recently created published revision   *)
(* of that document.                                                       *)
(***************************************************************************)
C2_LiveEqualsLatestPublished ==
  \A r \in PublishRequests \cup RollbackRequests :
    LET out == Outcome(r)
    IN out.s.result = "ok" =>
         /\ PublishedRowsOf(out.v, r.aid) # {}
         /\ Snapshot(out.a[r.aid]) = Snapshot(out.v[Max(PublishedRowsOf(out.v, r.aid))])

\* A publish has returned: the live document carries the edited draft
C2_Witness ==
  /\ Returned("publish", "ok")
  /\ Len(versions) = 3
  /\ Snapshot(articles[1]) = Snapshot(versions[3])
  /\ Snapshot(articles[1]) # Snapshot(versions[1])

(***************************************************************************)
(* C3.  When create_draft_version calls on one document interleave, each   *)
(* reading max(version_number) and inserting in separate round trips, the  *)
(* stored revisions of the document never hold two rows with the same      *)
(* version number.                                                         *)
(***************************************************************************)
C3_NoDuplicateVersionNumber ==
  \A i, j \in 1..Len(versions) :
    (/\ versions[i].article_id = versions[j].article_id
     /\ versions[i].version_number = versions[j].version_number) => i = j

\* Two create_draft_version calls read the same maximum; the second INSERT
\* was refused
C3_Witness ==
  /\ sess[Stepper].op = "create_draft"
  /\ sess[Stepper].result = "error"
  /\ \E i \in 1..Len(versions) : versions[i].is_draft

(***************************************************************************)
(* C4.  update_article, publish_draft_version and                          *)
(* rollback_article_to_version are all-or-nothing: no committed state      *)
(* shows the live document changed without the published revision that     *)
(* records the change, i.e. every commit that changes a document's title,  *)
(* content, tags, weight_score or is_public also adds a published          *)
(* revision of that document.                                              *)
(***************************************************************************)
C4_DocumentAndRevisionCommitTogether ==
  [][\A d \in 1..Len(articles) :
       Snapshot(articles'[d]) # Snapshot(articles[d]) =>
         \E i \in RowsOf(versions', d) :
           /\ i > Len(versions)
           /\ ~versions'[i].is_draft
           /\ Snapshot(versions'[i]) = <<articles'[d].title, articles'[d].content,
                                         OrEmptyList(articles'[d].tags),
                                         articles'[d].weight_score, articles'[d].is_public>>]_vars

(***************************************************************************)
(* C5.  Once a revision is published, its version_number, title, content,  *)
(* tags, weight_score and is_public never change and the revision is never *)
(* removed, under any interleaving of the calls, including an              *)
(* update_draft_version that read the revision while it was a draft and    *)
(* commits after a concurrent publish.                                     *)
(***************************************************************************)
C5_PublishedRevisionsImmutable ==
  [][\A i \in 1..Len(versions) :
       ~versions[i].is_draft =>
         /\ i <= Len(versions')
         /\ versions'[i].article_id = versions[i].article_id
         /\ versions'[i].version_number = versions[i].version_number
         /\ Snapshot(versions'[i]) = Snapshot(versions[i])]_vars

(***************************************************************************)
(* C6.  A revision is a draft or published, and the only transition is     *)
(* draft -> published: once is_draft is false for a revision it is false   *)
(* in every later state (and the revision is still there).                 *)
(***************************************************************************)
C6_PublishedNeverRegresses ==
  [][\A i \in 1..Len(versions) :
       /\ versions[i].is_draft \in BOOLEAN
       /\ ~versions[i].is_draft =>
            /\ i <= Len(versions')
            /\ versions'[i].article_id = versions[i].article_id
            /\ versions'[i].version_number = versions[i].version_number
            /\ ~versions'[i].is_draft]_vars

\* An update_draft_version that loaded a draft has committed after a publish of
\* the same revision: the title it wrote is in a published revision, not in
\* the live document
C6_Witness ==
  /\ sess[Stepper].op = "update_draft"
  /\ sess[Stepper].result = "ok"
  /\ \E i \in 1..Len(versions) :
       /\ ~versions[i].is_draft
       /\ versions[i].title = "t3"
       /\ articles[versions[i].article_id].title # "t3"

(***************************************************************************)
(* C7.  A rollback_article_to_version(d, v) that returns the article adds  *)
(* exactly one revision: published, numbered old maximum + 1, with the     *)
(* title, content, tags, weight_score and is_public of revision v; every   *)
(* revision that existed is unchanged, none is removed or renumbered.      *)
(***************************************************************************)
C7_RollbackAppendsOneRevision ==
  \A r \in RollbackRequests :
    LET out == Outcome(r)
        old == RowsOf(versions, r.aid)
        new == Len(versions) + 1
    IN out.s.result = "ok" =>
         /\ Len(out.v) = new
         /\ \A i \in 1..Len(versions) : out.v[i] = versions[i]
         /\ \E i \in old :
              /\ versions[i].version_number = r.vno
              /\ Snapshot(out.v[new]) = Snapshot(versions[i])
         /\ out.v[new].article_id = r.aid
         /\ ~out.v[new].is_draft
         /\ out.v[new].version_number = Max({versions[i].version_number : i \in old}) + 1

\* A rollback has returned, to a revision that is not the one before it
C7_Witness ==
  /\ Returned("rollback", "ok")
  /\ Len(versions) = 3
  /\ Snapshot(versions[3]) = Snapshot(versions[1])
  /\ Snapshot(versions[3]) # Snapshot(versions[2])
  /\ Snapshot(articles[1]) = Snapshot(versions[3])

(***************************************************************************)
(* C8.  create_draft_version(d) followed at once by publish_draft_version  *)
(* of the returned revision leaves the live document's title, content,     *)
(* tags, weight_score and is_public as they were when the draft was        *)
(* created.                                                                *)
(***************************************************************************)
C8_DraftThenPublishKeepsDocument ==
  \A r \in CreateDraftRequests :
    LET drafted == Outcome(r)
    IN drafted.s.result = "ok" =>
         LET n == drafted.v[Len(drafted.v)].version_number
             published == RunF(St(drafted.a, drafted.v,
                                  Request("publish", "get_art", r.aid, n, 0)))
         IN /\ published.s.result = "ok"
            /\ Snapshot(published.a[r.aid]) = Snapshot(articles[r.aid])

(***************************************************************************)
(* C9.  A publish_draft_version(d, v) that returns the article copies the  *)
(* draft's title, content, tags, weight_score and is_public onto the live  *)
(* document, marks revision v published with published_at set, and adds    *)
(* exactly one further published revision, numbered old maximum + 1, whose *)
(* fields equal the updated live document; the revisions of d grow by one. *)
(***************************************************************************)
C9_PublishCopiesMarksAndSnapshots ==
  \A r \in PublishRequests :
    LET out == Outcome(r)
        old == RowsOf(versions, r.aid)
        new == Len(versions) + 1
    IN out.s.result = "ok" =>
         \E i \in old :
           /\ versions[i].version_number = r.vno
           /\ versions[i].is_draft
           /\ Snapshot(out.a[r.aid]) = Snapshot(versions[i])
           /\ out.a[r.aid].is_active = articles[r.aid].is_active
           /\ out.v[i] = [versions[i] EXCEPT !.is_draft = FALSE, !.published_at = TRUE]
           /\ \A j \in 1..Len(versions) : j # i => out.v[j] = versions[j]
           /\ Len(out.v) = new
           /\ out.v[new].article_id = r.aid
           /\ ~out.v[new].is_draft
           /\ out.v[new].published_at
           /\ out.v[new].version_number = Max({versions[j].version_number : j \in old}) + 1
           /\ Snapshot(out.v[new]) = Snapshot(out.a[r.aid])
           /\ Cardinality(RowsOf(out.v, r.aid)) = Cardinality(old) + 1

\* A publish has returned: revision 2, the draft, is published and dated, and
\* revision 3 is the snapshot that followed
C9_Witness ==
  /\ Returned("publish", "ok")
  /\ Len(versions) = 3
  /\ ~versions[2].is_draft /\ versions[2].published_at
  /\ ~versions[3].is_draft /\ versions[3].version_number = 3
  /\ Snapshot(versions[3]) = Snapshot(versions[2])

(***************************************************************************)
(* C10.  rollback_article_to_version(d, v) returns not-found when document *)
(* d does not exist or is soft-deleted, when d has no revision v, or when  *)
(* revision v is a draft; the live document and every revision are then    *)
(* left as they were.                                                      *)
(***************************************************************************)
C10_RollbackNotFoundChangesNothing ==
  \A r \in RollbackRequests :
    LET out == Outcome(r)
        missing == r.aid \notin 1..Len(articles)
        deleted == ~missing /\ ~articles[r.aid].is_active
        target == { i \in RowsOf(versions, r.aid) : versions[i].version_number = r.vno }
        draft == \E i \in target : versions[i].is_draft
    IN (missing \/ deleted \/ target = {} \/ draft) =>
         /\ out.s.result = "not_found"
         /\ out.a = articles
         /\ out.v = versions

\* A rollback has returned not-found where the document is live and holds a
\* draft, the revision a rollback is refused for
C10_Witness ==
  /\ Returned("rollback", "not_found")
  /\ ArticleFound(articles, 1)
  /\ \E r \in RollbackRequests :
       /\ \E i \in RowsOf(versions, r.aid) :
            versions[i].version_number = r.vno /\ versions[i].is_draft
       /\ Outcome(r).s.result = "not_found"

(***************************************************************************)
(* The versioning endpoints of admin.py: what the caller receives for what *)
(* the handler returned, as <<status code, detail>>.                       *)
(***************************************************************************)
HttpResponse(op, result) ==
  CASE result = "ok" -> <<IF op = "create_draft" THEN 201 ELSE 200, "">>
    [] result = "not_found" /\ op = "create_draft" -> <<404, "Article not found">>
    [] result = "not_found" /\ op \in {"update_draft", "publish"} -> <<404, "Draft not found">>
    [] result = "not_found" /\ op = "rollback" -> <<404, "Version not found or not publishable">>
    [] OTHER -> <<500, "Internal Server Error">>

\* The revisions of r's document that carry r's version number
Target(r) == { i \in RowsOf(versions, r.aid) : versions[i].version_number = r.vno }

\* r's document is there and not soft-deleted
DocumentLive(r) == r.aid \in 1..Len(articles) /\ articles[r.aid].is_active

(***************************************************************************)
(* C11.  update_draft_version(d, v, fields) and publish_draft_version(d,   *)
(* v) fail when d has no revision v or revision v is already published,    *)
(* publish also when document d is missing; on such a failure neither the  *)
(* live document nor any revision is modified.                             *)
(***************************************************************************)
C11_DraftCallsNotFoundChangeNothing ==
  \A r \in UpdateDraftRequests \cup PublishRequests :
    LET out == Outcome(r)
        published == \E i \in Target(r) : ~versions[i].is_draft
    IN (Target(r) = {} \/ published \/ (r.op = "publish" /\ ~DocumentLive(r))) =>
         /\ out.s.result = "not_found"
         /\ out.a = articles
         /\ out.v = versions

\* An update_draft_version has returned not-found where the document holds a
\* published revision, on which the call is refused
C11_Witness ==
  /\ Returned("update_draft", "not_found")
  /\ \E r \in UpdateDraftRequests :
       /\ \E i \in Target(r) : ~versions[i].is_draft
       /\ Outcome(r).s.result = "not_found"
  /\ \E r \in PublishRequests :
       /\ DocumentLive(r)
       /\ \E i \in Target(r) : ~versions[i].is_draft
       /\ Outcome(r).s.result = "not_found"

(***************************************************************************)
(* C12.  For update_draft, publish and rollback, what the caller receives  *)
(* when the document or the revision is absent differs from what it        *)
(* receives when the revision exists but is in the wrong state (published  *)
(* for update_draft and publish, draft for rollback).                      *)
(***************************************************************************)
C12_NotFoundDistinctFromInvalidState ==
  \A r, q \in UpdateDraftRequests \cup PublishRequests \cup RollbackRequests :
    LET absent == Target(r) = {} \/ (r.op # "update_draft" /\ ~DocumentLive(r))
        wrong == /\ q.op = "update_draft" \/ DocumentLive(q)
                 /\ \E i \in Target(q) : versions[i].is_draft = (q.op = "rollback")
    IN (r.op = q.op /\ absent /\ wrong) =>
         HttpResponse(r.op, Outcome(r).s.result) # HttpResponse(q.op, Outcome(q).s.result)

(***************************************************************************)
(* C13.  When two concurrent writers on one document compute the same next *)
(* version number, the collision is retried inside the implementation and  *)
(* both operations complete with distinct version numbers: no call is ever *)
(* returned to its caller as failed because of the collision.              *)
(***************************************************************************)
C13_CollisionNeverSurfaced ==
  \A p \in Sessions : sess[p].pc = "done" => sess[p].result # "error"

(***************************************************************************)
(* C14.  Every create_article and every update_article that succeeds adds  *)
(* exactly one new revision, published (is_draft false, published_at set), *)
(* whose title, content, tags, weight_score and is_public equal those of   *)
(* the live document as the call left it; an update_article that supplies  *)
(* no field, or values equal to the current ones, adds a revision too.     *)
(***************************************************************************)
C14_EditAddsRevisionEqualToDocument ==
  \A r \in CreateRequests \cup UpdateRequests :
    LET out == Outcome(r)
        d == IF r.op = "create_article" THEN Len(articles) + 1 ELSE r.aid
        new == Len(versions) + 1
    IN out.s.result = "ok" =>
         /\ Len(out.v) = new
         /\ \A i \in 1..Len(versions) : out.v[i] = versions[i]
         /\ out.v[new].article_id = d
         /\ ~out.v[new].is_draft
         /\ out.v[new].published_at
         /\ Snapshot(out.v[new]) = Snapshot(out.a[d])

(***************************************************************************)
(* C15.  create_draft_version and update_draft_version never change the    *)
(* live document: after either call its title, content, tags,              *)
(* weight_score, is_public and is_active are what they were before; a      *)
(* draft's content becomes live through publish_draft_version alone.       *)
(***************************************************************************)
C15_DraftCallsLeaveDocument ==
  \A r \in CreateDraftRequests \cup UpdateDraftRequests : Outcome(r).a = articles

\* An update_draft_version has returned and the document holds a draft whose
\* fields are not those of the live document
C15_Witness ==
  /\ Returned("update_draft", "ok")
  /\ \E i \in 1..Len(versions) :
       /\ versions[i].is_draft
       /\ Snapshot(versions[i]) # Snapshot(articles[versions[i].article_id])

(***************************************************************************)
(* C16.  An update_draft_version(d, v, fields) that succeeds sets exactly  *)
(* the snapshot fields supplied in fields (among title, content, tags,     *)
(* weight_score, is_public) to the supplied values, leaves every           *)
(* unsupplied snapshot field, version_number and is_draft of revision v    *)
(* unchanged, and leaves all other revisions unchanged.                    *)
(***************************************************************************)
C16_UpdateDraftSetsSuppliedFields ==
  \A r \in UpdateDraftRequests :
    LET out == Outcome(r)
        fields == DraftInputs[r.inp]
    IN out.s.result = "ok" =>
         /\ Len(out.v) = Len(versions)
         /\ \A i \in 1..Len(versions) :
              IF i \in Target(r)
              THEN \A k \in DOMAIN versions[i] :
                     out.v[i][k] = IF k \in SnapshotFields /\ k \in DOMAIN fields
                                   THEN fields[k] ELSE versions[i][k]
              ELSE out.v[i] = versions[i]

(***************************************************************************)
(* C16, amended.  An update_draft_version that succeeds sets exactly the   *)
(* snapshot fields supplied with a value other than null to the supplied   *)
(* values; a field supplied as null is left as it was, like an unsupplied  *)
(* one; version_number, is_draft and all other revisions are unchanged.    *)
(***************************************************************************)
C16_UpdateDraftSetsNonNullFields ==
  \A r \in UpdateDraftRequests :
    LET out == Outcome(r)
        fields == DraftInputs[r.inp]
    IN out.s.result = "ok" =>
         /\ Len(out.v) = Len(versions)
         /\ \A i \in 1..Len(versions) :
              IF i \in Target(r)
              THEN \A k \in DOMAIN versions[i] :
                     out.v[i][k] = IF /\ k \in SnapshotFields
                                      /\ k \in DOMAIN fields
                                      /\ ~(k = "tags" /\ fields[k] = NoneTags)
                                   THEN fields[k] ELSE versions[i][k]
              ELSE out.v[i] = versions[i]

\* An update_draft_version with a title and null tags has returned: the draft
\* carries the title and still has its tags
C16_Witness ==
  /\ Returned("update_draft", "ok")
  /\ \E i \in 1..Len(versions) :
       /\ versions[i].is_draft
       /\ versions[i].title = DraftInputs[1].title
       /\ versions[i].tags # DraftInputs[1].tags

(***************************************************************************)
(* C17.  For every input string _parse_search_query returns the three term *)
(* lists of the reference parser: split on whitespace; a token starting    *)
(* with '+' gives its remainder to required, one starting with '-' gives   *)
(* its remainder to excluded, any other token gives itself to optional;    *)
(* every term of the three lists has all characters other than word        *)
(* characters and hyphens removed and is lowercase; tokens that become     *)
(* empty are dropped.                                                      *)
(***************************************************************************)
C17_ParserMatchesReference ==
  terms.parsed =>
    LET Clean(s) == Lower(SelectSeq(s, LAMBDA c : c \in WordChars \cup {"-"}))
        Rest(tok) == IF tok[1] \in {"+", "-"} THEN Tail(tok) ELSE tok
        Kept(tok) == Clean(Rest(tok)) # <<>>
        Plus(tok) == tok[1] = "+"
        Minus(tok) == tok[1] = "-"
        Plain(tok) == tok[1] \notin {"+", "-"}
        tokens == SelectSeq(Split(query), Kept)
        req == SelectSeq(tokens, Plus)
        exc == SelectSeq(tokens, Minus)
        opt == SelectSeq(tokens, Plain)
    IN /\ terms.required = [i \in 1..Len(req) |-> Clean(Rest(req[i]))]
       /\ terms.excluded = [i \in 1..Len(exc) |-> Clean(Rest(exc[i]))]
       /\ terms.optional = [i \in 1..Len(opt) |-> Clean(opt[i])]

(***************************************************************************)
(* The matching predicate of the search: a term matches a document when it *)
(* is, without regard to case, a substring of the title, of the content,   *)
(* of a tag, or of the name of a platform or a product of the document.    *)
(***************************************************************************)
Substring(t, s) ==
  \E k \in 0..(Len(s) - Len(t)) : \A j \in 1..Len(t) : LowerChar(s[k + j]) = LowerChar(t[j])

Contains(doc, t) ==
  \/ Substring(t, doc.title)
  \/ Substring(t, doc.content)
  \/ \E i \in 1..Len(doc.tags.list) : Substring(t, doc.tags.list[i])
  \/ \E n \in doc.platforms \cup doc.products : Substring(t, n)

ContainsAll(doc, ts) == \A i \in 1..Len(ts) : Contains(doc, ts[i])

ContainsSome(doc, ts) == \E i \in 1..Len(ts) : Contains(doc, ts[i])

\* A search with terms has returned
Searched == terms.parsed /\ ~NoTermsIn(terms)

\* Document d is in the result, or the result is full
Candidate(d) == (\E i \in DOMAIN hits : hits[i] = d) \/ Len(hits) = limit

(***************************************************************************)
(* C18.  For a query with at least one term, every document returned by    *)
(* search_articles matches every required term, and every active,          *)
(* visibility-permitted document that matches all required terms,          *)
(* satisfies the optional rule and matches no excluded term is a candidate *)
(* for the result.                                                         *)
(***************************************************************************)
C18_RequiredTermsAndCompleteness ==
  Searched =>
    /\ \A i \in DOMAIN hits : ContainsAll(articles[hits[i]], terms.required)
    /\ \A d \in 1..Len(articles) :
         (/\ BaseFilter(articles[d], public_only)
          /\ ContainsAll(articles[d], terms.required)
          /\ (terms.optional # <<>> /\ terms.required = <<>>)
               => ContainsSome(articles[d], terms.optional)
          /\ ~ContainsSome(articles[d], terms.excluded)) => Candidate(d)

(***************************************************************************)
(* C19.  When optional terms exist and there is no required term, a        *)
(* document qualifies only if at least one optional term matches it; when  *)
(* a required term exists, optional terms have no effect on which          *)
(* documents qualify: the result is a result of the query without them.    *)
(***************************************************************************)
C19_OptionalRule ==
  Searched =>
    /\ (terms.optional # <<>> /\ terms.required = <<>>) =>
         \A i \in DOMAIN hits : ContainsSome(articles[hits[i]], terms.optional)
    /\ terms.required # <<>> =>
         hits \in Ordered(articles,
                          Selected(articles, [terms EXCEPT !.optional = <<>>],
                                   public_only, database_url),
                          limit, TRUE)

(***************************************************************************)
(* C20.  No document returned by search_articles for a query with terms    *)
(* matches an excluded term; exclusion overrides required and optional     *)
(* matches: for "+alpha -beta gamma" a document containing alpha and beta  *)
(* is never returned, with gamma or without, while a document containing   *)
(* only alpha is returned.                                                 *)
(***************************************************************************)
C20_ExcludedTermsOverride ==
  Searched =>
    /\ \A i \in DOMAIN hits : ~ContainsSome(articles[hits[i]], terms.excluded)
    /\ query = <<"+", "a", " ", "-", "b", " ", "g">> =>
         \A d \in 1..Len(articles) :
           (/\ BaseFilter(articles[d], public_only)
            /\ Contains(articles[d], <<"a">>)
            /\ ~Contains(articles[d], <<"b">>)) => Candidate(d)

(***************************************************************************)
(* C21.  For an empty or whitespace-only query, and for a query whose      *)
(* tokens all strip to nothing, search_articles filters by no term and     *)
(* returns the first limit active (and, if public_only, public) documents  *)
(* in the order of weight_score descending, documents of equal weight the  *)
(* most recently updated first.                                            *)
(***************************************************************************)
C21_EmptyQueryTopByWeightThenUpdated ==
  (terms.parsed /\ NoTermsIn(terms)) =>
    hits \in Ordered(articles, { d \in 1..Len(articles) : BaseFilter(articles[d], public_only) },
                     limit, TRUE)

(***************************************************************************)
(* The rows that pass the filters of the term query, and the rank of a row *)
(* against another: a higher weight_score, or the same weight_score and an *)
(* updated_at not earlier.                                                 *)
(***************************************************************************)
Qualifying == Selected(articles, terms, public_only, database_url)

RankedNoLower(x, y) ==
  \/ articles[x].weight_score > articles[y].weight_score
  \/ /\ articles[x].weight_score = articles[y].weight_score
     /\ articles[x].updated_at >= articles[y].updated_at

Returns(d) == \E i \in DOMAIN hits : hits[i] = d

C23_OnlyActiveAndVisibleReturned ==
  \A i \in DOMAIN hits :
    /\ articles[hits[i]].is_active
    /\ public_only => articles[hits[i]].is_public

\* An enhanced public-only search by optional terms has returned a document
\* while a soft-deleted and a private document contain a term as well
C23_Witness ==
  /\ Returned("enhanced_search", "ok")
  /\ Searched
  /\ public_only
  /\ terms.required = <<>> /\ terms.excluded = <<>>
  /\ hits # <<>>
  /\ \E d, e \in 1..Len(articles) :
       /\ ~articles[d].is_active /\ ContainsSome(articles[d], terms.optional)
       /\ articles[e].is_active /\ ~articles[e].is_public
       /\ ContainsSome(articles[e], terms.optional)

(***************************************************************************)
(* C24.  For every query, limit and visibility flag, enhanced_search       *)
(* returns the same ordered list of documents as basic_search on the same  *)
(* store: a list basic_search returns for these arguments.                 *)
(***************************************************************************)
C24_EnhancedReturnsBasicResult ==
  Returned("enhanced_search", "ok") =>
    hits \in SearchArticles(articles, query, limit, public_only, database_url)

(***************************************************************************)
(* C25.  A positive vote on an active document sets the weight to          *)
(* min(10.0, weight + 0.1) and adds exactly 1 to helpful_votes; a negative *)
(* vote sets it to max(0.1, weight - 0.05) and adds exactly 1 to           *)
(* unhelpful_votes; nothing else changes.  A vote on a missing or          *)
(* soft-deleted document returns false and changes nothing.                *)
(***************************************************************************)
C25_VoteArithmetic ==
  \A r \in VoteHelpfulRequests \cup VoteUnhelpfulRequests :
    LET out == Outcome(r)
        d == r.aid
        w == articles[d].weight_score
        voted ==
          IF r.op = "vote_helpful"
          THEN [articles[d] EXCEPT !.helpful_votes = @ + 1,
                                   !.weight_score = IF w + 10 < 1000 THEN w + 10 ELSE 1000]
          ELSE [articles[d] EXCEPT !.unhelpful_votes = @ + 1,
                                   !.weight_score = IF w - 5 > 10 THEN w - 5 ELSE 10]
    IN /\ out.v = versions
       /\ IF d \in 1..Len(articles) /\ articles[d].is_active
          THEN out.s.result = "ok" /\ out.a = [articles EXCEPT ![d] = voted]
          ELSE out.s.result = "not_found" /\ out.a = articles

(***************************************************************************)
(* C26.  In every reachable state the weight_score of every live document  *)
(* lies in [0.0, 10.0], whether it was created or changed by               *)
(* create_article, update_article, update_draft_version followed by        *)
(* publish_draft_version, rollback_article_to_version, a vote or           *)
(* import_articles_from_json.                                              *)
(***************************************************************************)
C26_WeightWithinRange ==
  \A d \in 1..Len(articles) :
    articles[d].weight_score >= 0 /\ articles[d].weight_score <= 1000

(***************************************************************************)
(* C27.  Whenever no operation is in progress, every active document has   *)
(* at least one published revision, and its title, content, tags and       *)
(* is_public equal those of its published revision with the highest        *)
(* version number, after any sequence of create, import, update, vote,     *)
(* soft-delete, create_draft, update_draft, publish and rollback.          *)
(***************************************************************************)
C27_ActiveDocumentEqualsLatestPublished ==
  \A d \in 1..Len(articles) :
    articles[d].is_active =>
      /\ PublishedRowsOf(versions, d) # {}
      /\ \A i \in PublishedRowsOf(versions, d) :
           (\A j \in PublishedRowsOf(versions, d) :
              versions[j].version_number <= versions[i].version_number)
             => /\ articles[d].title = versions[i].title
                /\ articles[d].content = versions[i].content
                /\ articles[d].tags = versions[i].tags
                /\ articles[d].is_public = versions[i].is_public

(***************************************************************************)
(* C28.  At most one publish_draft_version call on a draft succeeds, also  *)
(* when two calls for the same document and version interleave between     *)
(* their read of is_draft and their commits: a call that has read          *)
(* is_draft = true and goes on to publish finds the revision still a       *)
(* draft, so that no draft is published twice and followed by two          *)
(* synthesized snapshots.                                                  *)
(***************************************************************************)
C28_DraftPublishedAtMostOnce ==
  (sess[Stepper].op = "publish" /\ sess[Stepper].pc \in {"commit_art", "refresh", "commit_pub"})
    => versions[sess[Stepper].vid].is_draft

(***************************************************************************)
(* The calls on document d that go through get_article.                    *)
(***************************************************************************)
GuardedRequests(d) ==
  { r \in UpdateRequests \cup DeleteRequests \cup VoteHelpfulRequests \cup VoteUnhelpfulRequests
            \cup CreateDraftRequests \cup PublishRequests \cup RollbackRequests : r.aid = d }

Unchanged(r) == Outcome(r).a = articles /\ Outcome(r).v = versions

(***************************************************************************)
(* C29 as claimed.  Once a document is soft-deleted, no later              *)
(* update_article, vote, create_draft_version, update_draft_version,       *)
(* publish_draft_version or rollback_article_to_version call changes its   *)
(* live fields or any of its revisions: each such call reports not-found,  *)
(* a repeated delete_article returns false, and the revisions remain as    *)
(* they are listed.                                                        *)
(***************************************************************************)
C29_SoftDeletedDocumentFrozen ==
  \A d \in 1..Len(articles) :
    ~articles[d].is_active =>
      \A r \in GuardedRequests(d) \cup { q \in UpdateDraftRequests : q.aid = d } :
        Outcome(r).s.result = "not_found" /\ Unchanged(r)

(***************************************************************************)
(* C29.  Once a document is soft-deleted, every later update_article,      *)
(* vote, create_draft_version, publish_draft_version,                      *)
(* rollback_article_to_version and delete_article call on it reports       *)
(* not-found and changes neither its live fields nor any revision.         *)
(* update_draft_version does not look at the document: it leaves the live  *)
(* fields, the published revisions and every other draft as they are, and  *)
(* edits the draft it names as it does for an active document.             *)
(***************************************************************************)
C29_SoftDeletedFrameButDrafts ==
  \A d \in 1..Len(articles) :
    ~articles[d].is_active =>
      /\ \A r \in GuardedRequests(d) : Outcome(r).s.result = "not_found" /\ Unchanged(r)
      /\ \A r \in { q \in UpdateDraftRequests : q.aid = d } :
           /\ Outcome(r).a = articles
           /\ Len(Outcome(r).v) = Len(versions)
           /\ \A i \in 1..Len(versions) :
                (versions[i].article_id = d /\ versions[i].version_number = r.vno
                   /\ versions[i].is_draft)
                \/ Outcome(r).v[i] = versions[i]

\* delete_article has soft-deleted a document that has a draft revision
C29_Witness ==
  /\ Returned("delete_article", "ok")
  /\ \E d \in 1..Len(articles) :
       /\ ~articles[d].is_active
       /\ \E i \in RowsOf(versions, d) : versions[i].is_draft
       /\ \E i \in RowsOf(versions, d) : ~versions[i].is_draft

(***************************************************************************)
(* The weight of document d before and after the call r.                   *)
(***************************************************************************)
WeightBefore(r) ==
  IF r.aid \in 1..Len(articles) THEN articles[r.aid].weight_score ELSE NoneWeight

WeightAfter(r) ==
  IF r.aid \in 1..Len(articles) THEN Outcome(r).a[r.aid].weight_score ELSE NoneWeight

====
